---------------------------- MODULE Spec2Model ----------------------------
(***************************************************************************)
(* CSymmetricMatrix<TYPE>::GetEigen of UVAtlas (isochart).                 *)
(*                                                                         *)
(* The repository holds four revisions of the same static function:       *)
(*   part_000  always Eigen::SelfAdjointEigenSolver (dense, "Exact")       *)
(*   part_001  Spectra::SymEigsSolver (iterative, "Partial") first when    *)
(*             dwMaxRange < dwDimension, then the dense solver as fallback *)
(*   part_002  "if (true)": always the dense solver, Spectra branch dead   *)
(*   hpp       UVAtlas/isochart/SymmetricMatrix.hpp: the dense solver iff  *)
(*             dwDimension == dwMaxRange, else Spectra with no fallback    *)
(* A build compiles one of them: rev is chosen in Init and never changes.  *)
(*                                                                         *)
(* One call is modelled as the caller handing over its arguments and       *)
(* buffers (Call), then the body of GetEigen step by step: the argument    *)
(* check with the strategy selection, the run of the iterative solver      *)
(* with the handling of its outcome, the run of the dense solver with the  *)
(* handling of its outcome.  The two solvers are external libraries: what  *)
(* they report (status, converged count, eigenvalues) is drawn from small  *)
(* sets.  Their eigenvector matrices are symbolic: the cell <<s, r, c>> is *)
(* row r, column c of the matrix solver s produced, so that any            *)
(* permutation of rows or columns or any mixing of sources is visible.     *)
(***************************************************************************)
EXTENDS Integers, Sequences, FiniteSets, TLC

(* ------------------------------ bounds --------------------------------- *)

\* Largest dwDimension / dwMaxRange a caller passes (0 is passed too).
MaxDim == 3

\* Eigenvalues reported by the solvers are drawn from 0..MaxVal.
MaxVal == 1

\* Width of size_t in the model.  The builds have 32 or 64 bits; the
\* matrix of dwDimension * dwDimension coefficients has to be addressable,
\* so dwDimension stays far below 2^(SizeBits-1) and dwMaxRange * 2 never
\* wraps for a matrix that exists.
SizeBits == 16

Vals == 0..MaxVal
Dims == 0..MaxDim

\* Coefficient the caller's eigenvalue buffer holds before the call.
Stale == MaxVal + 1

(* ----------------------- the external libraries ------------------------ *)

\* enum Eigen::ComputationInfo
EigenComputationInfo == {"Success", "NumericalIssue", "NoConvergence", "InvalidInput"}

\* enum Spectra::COMPUTATION_INFO
SpectraComputationInfo == {"SUCCESSFUL", "NOT_COMPUTED", "NOT_CONVERGING", "NUMERICAL_ISSUE"}

\* All sequences of length len over S.
SeqsOfLen(S, len) == [1..len -> S]

\* eigenSolver.eigenvectors(): the n x n matrix of the dense solver.
EigenSolverEigenvectors(n) == [r \in 1..n, c \in 1..n |-> <<"Eigen", r, c>>]

\* eigs.eigenvectors(): the n x nconv matrix of the iterative solver.
SpectraEigenvectors(n, nconv) == [r \in 1..n, c \in 1..nconv |-> <<"Spectra", r, c>>]

(* --------------------------- Eigen expressions ------------------------- *)

\* Mutant of Reverse: the ascending values are copied out as they come.
Reverse_Forgotten(v) == v

\* VectorXd::reverse()
Reverse(v) == [i \in 1..Len(v) |-> v[Len(v) + 1 - i]]

\* VectorXd::head(k)
Head_k(v, k) == [i \in 1..k |-> v[i]]

\* Mutant of RowwiseReverse: colwise().reverse(), which reverses the rows
\* (the components of every vector) and leaves the columns in place.
RowwiseReverse_Colwise(m, rows, cols) ==
    [r \in 1..rows, c \in 1..cols |-> m[rows + 1 - r, c]]

\* MatrixXd::rowwise().reverse() of a rows x cols matrix: every row is
\* reversed, that is the order of the columns is reversed.
RowwiseReverse(m, rows, cols) == [r \in 1..rows, c \in 1..cols |-> m[r, cols + 1 - c]]

\* MatrixXd::leftCols(k) of a matrix with the given number of rows.
LeftCols(m, rows, k) == [r \in 1..rows, c \in 1..k |-> m[r, c]]

\* Eigen::Map<EigenMatrix>::operator=(expr): the coefficients of expr are
\* written into the caller's storage the Map wraps.  A Map cannot be
\* resized: coefficient p of the buffer receives coefficient p of expr.
MapAssign(buffer, expr) == [p \in DOMAIN buffer |-> expr[p]]

(* ------------------------------- state --------------------------------- *)

VARIABLES
    rev,            \* revision of GetEigen the build compiles
    pc,             \* "idle", "entry", "spectra", "eigen", "returned"
    dwDimension,    \* argument: n
    dwMaxRange,     \* argument: k
    pMatrix,        \* argument: TRUE iff the pointer is not null
    pEigenValue,    \* argument: TRUE iff the pointer is not null
    pEigenVector,   \* argument: TRUE iff the pointer is not null
    eigenvalues,    \* the caller's storage behind pEigenValue
    eigenvectors,   \* the caller's storage behind pEigenVector
    ret,            \* the value GetEigen returned (when pc = "returned")
    invoked,        \* the solvers run in this call, in order
    eigs,           \* the Spectra::SymEigsSolver object of this call
    eigenSolver     \* the Eigen::SelfAdjointEigenSolver object of this call

vars == <<rev, pc, dwDimension, dwMaxRange, pMatrix, pEigenValue, pEigenVector,
          eigenvalues, eigenvectors, ret, invoked, eigs, eigenSolver>>

args == <<dwDimension, dwMaxRange, pMatrix, pEigenValue, pEigenVector>>

Revisions == {"part_000", "part_001", "part_002", "hpp"}

\* What the caller's buffers hold when GetEigen is entered: dwMaxRange
\* stale values and dwDimension x dwMaxRange stale cells; a null pointer
\* has no storage behind it.
CallerEigenvalues(k, nonNull) == IF nonNull THEN [i \in 1..k |-> Stale] ELSE << >>

CallerEigenvectors(n, k, nonNull) ==
    IF nonNull THEN [r \in 1..n, c \in 1..k |-> <<"Caller", r, c>>] ELSE << >>

\* No solver object constructed yet.
NoEigs ==
    [called |-> FALSE, nev |-> 0, ncv |-> 0, selectionRule |-> "none",
     sortRule |-> "none", numConverged |-> 0, info |-> "NOT_COMPUTED",
     eigenvalues |-> << >>]

NoEigenSolver == [called |-> FALSE, info |-> "Success", eigenvalues |-> << >>]

Init ==
    /\ rev \in Revisions
    /\ pc = "idle"
    /\ dwDimension = 0
    /\ dwMaxRange = 0
    /\ pMatrix = FALSE
    /\ pEigenValue = FALSE
    /\ pEigenVector = FALSE
    /\ eigenvalues = << >>
    /\ eigenvectors = << >>
    /\ ret = FALSE
    /\ invoked = << >>
    /\ eigs = NoEigs
    /\ eigenSolver = NoEigenSolver

(* ------------------------------ the caller ----------------------------- *)

\* A caller enters GetEigen(n, pM, pVal, pVec, k) with freshly allocated
\* output buffers.
Call(n, k, pM, pVal, pVec) ==
    /\ pc = "idle"
    /\ pc' = "entry"
    /\ dwDimension' = n
    /\ dwMaxRange' = k
    /\ pMatrix' = pM
    /\ pEigenValue' = pVal
    /\ pEigenVector' = pVec
    /\ eigenvalues' = CallerEigenvalues(k, pVal)
    /\ eigenvectors' = CallerEigenvectors(n, k, pVec)
    /\ ret' = FALSE
    /\ invoked' = << >>
    /\ eigs' = NoEigs
    /\ eigenSolver' = NoEigenSolver
    /\ UNCHANGED rev

\* GetEigen has returned: its locals (the Maps, the solver objects) are
\* gone, the caller has read ret and its buffers and lets go of them.  The
\* function is static and keeps nothing from one call to the next.
CallReturned ==
    /\ pc = "returned"
    /\ pc' = "idle"
    /\ dwDimension' = 0
    /\ dwMaxRange' = 0
    /\ pMatrix' = FALSE
    /\ pEigenValue' = FALSE
    /\ pEigenVector' = FALSE
    /\ eigenvalues' = << >>
    /\ eigenvectors' = << >>
    /\ ret' = FALSE
    /\ invoked' = << >>
    /\ eigs' = NoEigs
    /\ eigenSolver' = NoEigenSolver
    /\ UNCHANGED rev

(* ----------------------- code shared by the revisions ------------------ *)

\* Mutant of InvalidArguments: pEigenVector is not tested for null.
InvalidArguments_VectorUnchecked(n, k, pM, pVal, pVec) ==
    \/ ~pM \/ ~pVal
    \/ n < k
    \/ k = 0
    \/ n = 0

\* "Check arguments": the two early returns, the same in every revision.
InvalidArguments(n, k, pM, pVal, pVec) ==
    \/ ~pM \/ ~pVal \/ ~pVec
    \/ n < k
    \/ k = 0
    \/ n = 0

\* return b;
Return(b) ==
    /\ pc' = "returned"
    /\ ret' = b

\* std::min(dwMaxRange * 2, dwDimension) in size_t arithmetic.
Min(a, b) == IF a < b THEN a ELSE b

\* Mutant of Ncv: dwMaxRange * 2 without the std::min.
Ncv_Uncapped(k, n) == (k * 2) % (2 ^ SizeBits)

Ncv(k, n) == Min((k * 2) % (2 ^ SizeBits), n)

\* The SymEigsSolver<value_type, LARGEST_ALGE, ...> eigs(&op, dwMaxRange,
\* std::min(...)) object after eigs.init() and eigs.compute(maxIterations,
\* epsilon, LARGEST_ALGE) reported nconv converged pairs and status info.
SymEigsSolver(k, n, nconv, info, vals) ==
    [called |-> TRUE, nev |-> k, ncv |-> Ncv(k, n),
     selectionRule |-> "LARGEST_ALGE", sortRule |-> "LARGEST_ALGE",
     numConverged |-> nconv, info |-> info, eigenvalues |-> vals]

\* The SelfAdjointEigenSolver<EigenMatrix> eigenSolver(matrix) object.
SelfAdjointEigenSolver(info, vals) ==
    [called |-> TRUE, info |-> info, eigenvalues |-> vals]


\* The iterative solver is run and reports: the object is constructed for
\* the dwMaxRange largest eigenvalues, and compute() reports any converged
\* count 0..dwMaxRange (it never reports more pairs than were requested),
\* any status, and that many eigenvalues in whatever order.
RunSymEigsSolver(nconv, info, vals) ==
    /\ eigs' = SymEigsSolver(dwMaxRange, dwDimension, nconv, info, vals)
    /\ invoked' = Append(invoked, "Spectra")

\* The dense solver is run and reports any status and dwDimension
\* eigenvalues in whatever order.
RunSelfAdjointEigenSolver(info, vals) ==
    /\ eigenSolver' = SelfAdjointEigenSolver(info, vals)
    /\ invoked' = Append(invoked, "Eigen")

\* Mutant of CopySpectraResult: the values are reversed on the way out, as
\* they are for the dense solver.
CopySpectraResult_Reversed ==
    /\ eigenvalues' = MapAssign(eigenvalues, Reverse(eigs'.eigenvalues))
    /\ eigenvectors' = MapAssign(eigenvectors,
                          SpectraEigenvectors(dwDimension, eigs'.numConverged))

\* eigenvalues = eigs.eigenvalues(); eigenvectors = eigs.eigenvectors();
CopySpectraResult ==
    /\ eigenvalues' = MapAssign(eigenvalues, eigs'.eigenvalues)
    /\ eigenvectors' = MapAssign(eigenvectors,
                          SpectraEigenvectors(dwDimension, eigs'.numConverged))

\* eigenvalues = eigenSolver.eigenvalues().reverse().head(dwMaxRange);
\* eigenvectors = eigenSolver.eigenvectors().rowwise().reverse().leftCols(dwMaxRange);
CopyLargestEigenResult ==
    /\ eigenvalues' = MapAssign(eigenvalues,
                          Head_k(Reverse(eigenSolver'.eigenvalues), dwMaxRange))
    /\ eigenvectors' = MapAssign(eigenvectors,
                          LeftCols(RowwiseReverse(EigenSolverEigenvectors(dwDimension),
                                                  dwDimension, dwDimension),
                                   dwDimension, dwMaxRange))

(* ------------------------------ part_000 ------------------------------- *)

\* Argument check; a valid request goes on to the dense solver.
P000_CheckArguments ==
    /\ rev = "part_000"
    /\ pc = "entry"
    /\ IF InvalidArguments(dwDimension, dwMaxRange, pMatrix, pEigenValue, pEigenVector)
       THEN Return(FALSE)
       ELSE pc' = "eigen" /\ UNCHANGED ret
    /\ UNCHANGED <<rev, args, eigenvalues, eigenvectors, invoked, eigs, eigenSolver>>

P000_EigenSolver ==
    /\ rev = "part_000"
    /\ pc = "eigen"
    /\ \E info \in EigenComputationInfo, vals \in SeqsOfLen(Vals, dwDimension) :
          /\ RunSelfAdjointEigenSolver(info, vals)
          /\ IF info # "Success"
             THEN Return(FALSE) /\ UNCHANGED <<eigenvalues, eigenvectors>>
             ELSE CopyLargestEigenResult /\ Return(TRUE)
    /\ UNCHANGED <<rev, args, eigs>>

(* ------------------------------ part_001 ------------------------------- *)

\* "If we don't want every eigenvalue, try solving with Spectra first."
P001_TrySpectraFirst(n, k) == k < n

\* if (numConverged >= dwMaxRange && eigs.info() == Spectra::SUCCESSFUL)
P001_SpectraSucceeded(numConverged, k, info) ==
    numConverged >= k /\ info = "SUCCESSFUL"

P001_CheckArguments ==
    /\ rev = "part_001"
    /\ pc = "entry"
    /\ IF InvalidArguments(dwDimension, dwMaxRange, pMatrix, pEigenValue, pEigenVector)
       THEN Return(FALSE)
       ELSE /\ pc' = IF P001_TrySpectraFirst(dwDimension, dwMaxRange)
                     THEN "spectra" ELSE "eigen"
            /\ UNCHANGED ret
    /\ UNCHANGED <<rev, args, eigenvalues, eigenvectors, invoked, eigs, eigenSolver>>

P001_SymEigsSolver ==
    /\ rev = "part_001"
    /\ pc = "spectra"
    /\ \E nconv \in 0..dwMaxRange, info \in SpectraComputationInfo :
       \E vals \in SeqsOfLen(Vals, nconv) :
          /\ RunSymEigsSolver(nconv, info, vals)
          /\ IF P001_SpectraSucceeded(nconv, dwMaxRange, info)
             THEN CopySpectraResult /\ Return(TRUE)
             ELSE \* falls through to the block of the dense solver
                  pc' = "eigen" /\ UNCHANGED <<ret, eigenvalues, eigenvectors>>
    /\ UNCHANGED <<rev, args, eigenSolver>>

\* Mutant of P001_EigenSolver: the result is copied out before the status
\* of the dense solver is looked at.
P001_EigenSolver_CopyBeforeCheck ==
    /\ rev = "part_001"
    /\ pc = "eigen"
    /\ \E info \in EigenComputationInfo, vals \in SeqsOfLen(Vals, dwDimension) :
          /\ RunSelfAdjointEigenSolver(info, vals)
          /\ CopyLargestEigenResult
          /\ Return(info = "Success")
    /\ UNCHANGED <<rev, args, eigs>>

P001_EigenSolver ==
    /\ rev = "part_001"
    /\ pc = "eigen"
    /\ \E info \in EigenComputationInfo, vals \in SeqsOfLen(Vals, dwDimension) :
          /\ RunSelfAdjointEigenSolver(info, vals)
          /\ IF info = "Success"
             THEN CopyLargestEigenResult /\ Return(TRUE)
             ELSE Return(FALSE) /\ UNCHANGED <<eigenvalues, eigenvectors>>
    /\ UNCHANGED <<rev, args, eigs>>

(* ------------------------------ part_002 ------------------------------- *)

\* "if (true) { // Always use the Eigen solver for now."  The else branch
\* with Spectra::SymEigsSolver cannot be reached.
P002_UseEigenSolver(n, k) == TRUE

P002_CheckArguments ==
    /\ rev = "part_002"
    /\ pc = "entry"
    /\ IF InvalidArguments(dwDimension, dwMaxRange, pMatrix, pEigenValue, pEigenVector)
       THEN Return(FALSE)
       ELSE /\ pc' = IF P002_UseEigenSolver(dwDimension, dwMaxRange)
                     THEN "eigen" ELSE "spectra"
            /\ UNCHANGED ret
    /\ UNCHANGED <<rev, args, eigenvalues, eigenvectors, invoked, eigs, eigenSolver>>

P002_EigenSolver ==
    /\ rev = "part_002"
    /\ pc = "eigen"
    /\ \E info \in EigenComputationInfo, vals \in SeqsOfLen(Vals, dwDimension) :
          /\ RunSelfAdjointEigenSolver(info, vals)
          /\ IF info # "Success"
             THEN Return(FALSE) /\ UNCHANGED <<eigenvalues, eigenvectors>>
             ELSE CopyLargestEigenResult /\ Return(TRUE)
    /\ UNCHANGED <<rev, args, eigs>>

(* ------------------ UVAtlas/isochart/SymmetricMatrix.hpp --------------- *)

\* Mutant of Hpp_UseEigenSolver: the comparison is the wrong way round.
Hpp_UseEigenSolver_Greater(n, k) == n > k

\* "If we want every eigenvalue, use the built-in Eigen solver. Spectra
\* doesn't support this."
Hpp_UseEigenSolver(n, k) == n = k

\* Mutant of Hpp_SpectraFailed: eigs.info() is not looked at.
Hpp_SpectraFailed_CountOnly(numConverged, k, info) == numConverged < k

\* if (numConverged < dwMaxRange || eigs.info() != Spectra::SUCCESSFUL)
Hpp_SpectraFailed(numConverged, k, info) ==
    numConverged < k \/ info # "SUCCESSFUL"

\* eigenvalues = eigenSolver.eigenvalues().reverse();
\* eigenvectors = eigenSolver.eigenvectors().rowwise().reverse();
Hpp_CopyEigenResult ==
    /\ eigenvalues' = MapAssign(eigenvalues, Reverse(eigenSolver'.eigenvalues))
    /\ eigenvectors' = MapAssign(eigenvectors,
                          RowwiseReverse(EigenSolverEigenvectors(dwDimension),
                                         dwDimension, dwDimension))

Hpp_CheckArguments ==
    /\ rev = "hpp"
    /\ pc = "entry"
    /\ IF InvalidArguments(dwDimension, dwMaxRange, pMatrix, pEigenValue, pEigenVector)
       THEN Return(FALSE)
       ELSE /\ pc' = IF Hpp_UseEigenSolver(dwDimension, dwMaxRange)
                     THEN "eigen" ELSE "spectra"
            /\ UNCHANGED ret
    /\ UNCHANGED <<rev, args, eigenvalues, eigenvectors, invoked, eigs, eigenSolver>>

Hpp_EigenSolver ==
    /\ rev = "hpp"
    /\ pc = "eigen"
    /\ \E info \in EigenComputationInfo, vals \in SeqsOfLen(Vals, dwDimension) :
          /\ RunSelfAdjointEigenSolver(info, vals)
          /\ IF info # "Success"
             THEN Return(FALSE) /\ UNCHANGED <<eigenvalues, eigenvectors>>
             ELSE Hpp_CopyEigenResult /\ Return(TRUE)
    /\ UNCHANGED <<rev, args, eigs>>

Hpp_SymEigsSolver ==
    /\ rev = "hpp"
    /\ pc = "spectra"
    /\ \E nconv \in 0..dwMaxRange, info \in SpectraComputationInfo :
       \E vals \in SeqsOfLen(Vals, nconv) :
          /\ RunSymEigsSolver(nconv, info, vals)
          /\ IF Hpp_SpectraFailed(nconv, dwMaxRange, info)
             THEN Return(FALSE) /\ UNCHANGED <<eigenvalues, eigenvectors>>
             ELSE CopySpectraResult /\ Return(TRUE)
    /\ UNCHANGED <<rev, args, eigenSolver>>

(* --------------------------- the specification ------------------------- *)

CallGetEigen ==
    \E n \in Dims, k \in Dims, pM \in BOOLEAN, pVal \in BOOLEAN, pVec \in BOOLEAN :
        Call(n, k, pM, pVal, pVec)

Next ==
    \/ CallGetEigen
    \/ CallReturned
    \/ P000_CheckArguments
    \/ P000_EigenSolver
    \/ P001_CheckArguments
    \/ P001_SymEigsSolver
    \/ P001_EigenSolver
    \/ P002_CheckArguments
    \/ P002_EigenSolver
    \/ Hpp_CheckArguments
    \/ Hpp_EigenSolver
    \/ Hpp_SymEigsSolver

Spec == Init /\ [][Next]_vars

(* ------------------------------ the claims ----------------------------- *)

\* The request as the contract words it: k >= 1, n >= 1, k <= n and no
\* null matrix / eigenvalue / eigenvector buffer.
RequestInvalid ==
    \/ dwMaxRange = 0
    \/ dwMaxRange > dwDimension
    \/ dwDimension = 0
    \/ ~pMatrix \/ ~pEigenValue \/ ~pEigenVector

RequestValid == ~RequestInvalid

IsNonIncreasing(v) == \A i \in 1..(Len(v) - 1) : v[i] >= v[i + 1]

IsAscending(v) == \A i \in 1..(Len(v) - 1) : v[i] <= v[i + 1]

\* The solver run last in this call ("none" before any run).
LastInvoked == IF invoked = << >> THEN "none" ELSE invoked[Len(invoked)]

\* The iterative solver reported exactly k converged pairs and success.
SpectraReportedConvergence ==
    eigs.numConverged = dwMaxRange /\ eigs.info = "SUCCESSFUL"

BuffersUntouched ==
    /\ eigenvalues = CallerEigenvalues(dwMaxRange, pEigenValue)
    /\ eigenvectors = CallerEigenvectors(dwDimension, dwMaxRange, pEigenVector)

\* C1: a call with an invalid request (k = 0, k > n, n = 0 or a null
\* matrix / eigenvalue / eigenvector buffer) returns failure, and at no
\* point of the call is the dense or the iterative solver invoked.
C1_InvalidRequestFailsWithoutSolver ==
    (pc # "idle" /\ RequestInvalid) =>
        /\ pc \in {"entry", "returned"}
        /\ invoked = << >>
        /\ ~eigs.called
        /\ ~eigenSolver.called
        /\ (pc = "returned" => ret = FALSE)

\* A call with k > n and three valid buffers has returned.
C1_Witness ==
    /\ pc = "returned"
    /\ dwMaxRange > dwDimension
    /\ dwDimension >= 1
    /\ pMatrix /\ pEigenValue /\ pEigenVector
    /\ ~ret

\* C2: in a valid call with k = n the dense solver is the one used and
\* the iterative solver is never invoked, whatever the dense solver
\* reports.
C2_FullSpectrumUsesExactOnly ==
    (pc # "idle" /\ RequestValid /\ dwMaxRange = dwDimension) =>
        /\ pc # "spectra"
        /\ ~eigs.called
        /\ \A i \in 1..Len(invoked) : invoked[i] = "Eigen"
        /\ (pc = "returned" => invoked = <<"Eigen">> /\ eigenSolver.called)

\* A valid call with k = n = 2 has returned after a failing dense solver.
C2_Witness ==
    /\ pc = "returned"
    /\ RequestValid
    /\ dwMaxRange = dwDimension
    /\ dwDimension = 2
    /\ invoked = <<"Eigen">>
    /\ eigenSolver.info = "NoConvergence"
    /\ ~ret

\* C3: in a valid call with k < n the solvers are invoked in this order:
\* the iterative solver exactly once and first, then the dense solver at
\* most once and only if the iterative attempt reported non-convergence.
C3_PartialFirstThenExactOnFailure ==
    (pc # "idle" /\ RequestValid /\ dwMaxRange < dwDimension) =>
        /\ invoked \in {<< >>, <<"Spectra">>, <<"Spectra", "Eigen">>}
        /\ (pc = "returned" => invoked # << >>)
        /\ (eigenSolver.called => eigs.called /\ ~SpectraReportedConvergence)

\* C4: a non-convergence of the iterative solver never surfaces: a valid
\* call with k < n whose iterative attempt did not converge and whose dense
\* solver succeeded returns success; a valid call returns failure only if
\* the dense solver was invoked and reported failure.
C4_PartialFailureNeverSurfaces ==
    (pc = "returned" /\ RequestValid) =>
        /\ ( /\ dwMaxRange < dwDimension
             /\ eigs.called /\ ~SpectraReportedConvergence
             /\ eigenSolver.called /\ eigenSolver.info = "Success"
             => ret )
        /\ (~ret => eigenSolver.called /\ eigenSolver.info # "Success")

\* C5: after a successful call, whichever solver produced the result, the
\* eigenvalue output holds exactly k entries and is non-increasing,
\* provided the solver that produced it honoured its ordering contract
\* (dense: ascending, iterative: descending).
C5_ValuesNonIncreasing ==
    (/\ pc = "returned" /\ ret
     /\ (LastInvoked = "Eigen" => IsAscending(eigenSolver.eigenvalues))
     /\ (LastInvoked = "Spectra" => IsNonIncreasing(eigs.eigenvalues)))
    => /\ RequestValid
       /\ Len(eigenvalues) = dwMaxRange
       /\ IsNonIncreasing(eigenvalues)

\* A successful call with n = 3, k = 2 answered by the dense solver with
\* the ascending values 0, 0, 1.
C5_Witness ==
    /\ pc = "returned" /\ ret
    /\ dwDimension = 3 /\ dwMaxRange = 2
    /\ LastInvoked = "Eigen"
    /\ eigenSolver.eigenvalues = <<0, 0, 1>>
    /\ eigenvalues = <<1, 0>>

\* C6: when the dense solver succeeds with values a and eigenvector
\* columns V, then for every i < k: values[i] = a[n-1-i] and
\* vectors[:,i] = V[:,n-1-i] (1-based below: index n+1-i), values and
\* columns reversed with the same index map and cut to the first k, rows
\* within a vector not permuted.  Stated for every a the solver reports,
\* ascending or not.
C6_ExactReversedAndTruncated ==
    (pc = "returned" /\ ret /\ LastInvoked = "Eigen") =>
        /\ DOMAIN eigenvalues = 1..dwMaxRange
        /\ DOMAIN eigenvectors = (1..dwDimension) \X (1..dwMaxRange)
        /\ \A i \in 1..dwMaxRange :
              /\ eigenvalues[i] = eigenSolver.eigenvalues[dwDimension + 1 - i]
              /\ \A r \in 1..dwDimension :
                    eigenvectors[r, i] =
                        EigenSolverEigenvectors(dwDimension)[r, dwDimension + 1 - i]

\* The dense solver answered a call with n = 3, k = 2 after the iterative
\* solver had not converged; the values differ so the order matters.
C6_Witness ==
    /\ pc = "returned" /\ ret
    /\ invoked = <<"Spectra", "Eigen">>
    /\ dwDimension = 3 /\ dwMaxRange = 2
    /\ eigenSolver.eigenvalues = <<0, 1, 1>>
    /\ eigenvectors[3, 1] = <<"Eigen", 3, 3>>

\* C7: the iterative attempt is treated as successful iff the solver
\* reports exactly k converged pairs and the status SUCCESSFUL: then its
\* result is copied out and the call returns success; on every other
\* outcome nothing is copied to the output and the attempt does not end
\* the call with success.
C7_PartialSuccessCriterion ==
    [][ (pc = "spectra" /\ pc' # "spectra") =>
          IF eigs'.numConverged = dwMaxRange /\ eigs'.info = "SUCCESSFUL"
          THEN /\ pc' = "returned" /\ ret'
               /\ eigenvalues' = eigs'.eigenvalues
               /\ eigenvectors' = SpectraEigenvectors(dwDimension, dwMaxRange)
          ELSE /\ UNCHANGED <<eigenvalues, eigenvectors>>
               /\ ~(pc' = "returned" /\ ret')
      ]_vars

\* The iterative solver reported all k = 2 pairs but not the status
\* SUCCESSFUL, and the output was left alone.
C7_Witness ==
    /\ eigs.called
    /\ dwMaxRange = 2
    /\ eigs.numConverged = 2
    /\ eigs.info = "NOT_CONVERGING"
    /\ LastInvoked = "Spectra"
    /\ BuffersUntouched

\* C8 as stated: a result of the iterative solver whose values are not
\* descending is never returned to the caller as a success.
C8_PartialOrderingVerified ==
    (pc = "returned" /\ ret /\ LastInvoked = "Spectra") =>
        IsNonIncreasing(eigenvalues)

\* C8 amended: on a successful iterative attempt the component asks the
\* solver for LARGEST_ALGE sorting and copies the solver's k eigenvalues
\* out unchanged, in the order the solver reported them, without checking
\* that order.
C8_PartialOrderingTrusted ==
    (pc = "returned" /\ ret /\ LastInvoked = "Spectra") =>
        /\ eigs.sortRule = "LARGEST_ALGE"
        /\ Len(eigenvalues) = dwMaxRange
        /\ \A i \in 1..dwMaxRange : eigenvalues[i] = eigs.eigenvalues[i]

\* The iterative solver reported success with the values 0, 1 and the
\* call returned them as they came.
C8_Witness ==
    /\ pc = "returned" /\ ret
    /\ LastInvoked = "Spectra"
    /\ eigs.eigenvalues = <<0, 1>>
    /\ eigenvalues = <<0, 1>>

\* C9: no partial or degraded success: until the call returns success, and
\* when it returns failure, the caller's two buffers hold what they held
\* at entry; after a successful return they hold exactly k values and
\* n x k vector cells, all from the one solver that was run last.
C9_AllOrNothing ==
    /\ (pc \in {"entry", "spectra", "eigen"} \/ (pc = "returned" /\ ~ret))
           => BuffersUntouched
    /\ (pc = "returned" /\ ret) =>
           /\ DOMAIN eigenvalues = 1..dwMaxRange
           /\ DOMAIN eigenvectors = (1..dwDimension) \X (1..dwMaxRange)
           /\ LastInvoked \in {"Spectra", "Eigen"}
           /\ \A p \in DOMAIN eigenvectors : eigenvectors[p][1] = LastInvoked
           /\ \A i \in 1..dwMaxRange :
                 eigenvalues[i] = IF LastInvoked = "Spectra"
                                  THEN eigs.eigenvalues[i]
                                  ELSE eigenSolver.eigenvalues[dwDimension + 1 - i]

\* A call in which the iterative solver did not converge and the dense
\* solver failed after it has returned failure.
C9_Witness ==
    /\ pc = "returned" /\ ~ret
    /\ invoked = <<"Spectra", "Eigen">>
    /\ eigs.numConverged >= 1
    /\ BuffersUntouched

\* C10: whenever the iterative solver is invoked the request is valid with
\* 1 <= k < n, the solver is asked for the k algebraically largest
\* eigenvalues with ncv = min(2k, n), and k < ncv <= n.
C10_SubspaceSize ==
    eigs.called =>
        /\ RequestValid
        /\ 1 <= dwMaxRange /\ dwMaxRange < dwDimension
        /\ eigs.nev = dwMaxRange
        /\ eigs.selectionRule = "LARGEST_ALGE"
        /\ eigs.ncv = (IF 2 * dwMaxRange <= dwDimension
                       THEN 2 * dwMaxRange ELSE dwDimension)
        /\ dwMaxRange < eigs.ncv
        /\ eigs.ncv <= dwDimension

\* The iterative solver was invoked with 2k > n, where min picks n.
C10_Witness ==
    /\ eigs.called
    /\ 2 * dwMaxRange > dwDimension
    /\ eigs.ncv = dwDimension

=============================================================================
